---- MODULE Spec2Model ----
(***************************************************************************)
(* Model of the conversion service in src/main.py: the two POST endpoints, *)
(* process_conversion, get_command, the two static tables, the scratch     *)
(* file system, the tool child process and the delivery of the             *)
(* FileResponse with its BackgroundTask.                                   *)
(*                                                                         *)
(* Strings of the program are sequences of one-character strings, so that  *)
(* split('.'), lower(), endswith() and basename() are computed.            *)
(* One asyncio event loop runs the handlers: a coroutine keeps the loop    *)
(* from the point it resumes to its next await.  process_conversion has no *)
(* await in its body, so a request holds the loop (variable loop) from the *)
(* resumption of its endpoint handler until the handler returns or raises. *)
(***************************************************************************)
EXTENDS Integers, Sequences, FiniteSets, TLC

\* ---------------------------------------------------------------- bounds
NumReqs == 2        \* requests the server receives
OutChunks == 2      \* body chunks FileResponse sends for the output file

Reqs == 1..NumReqs
NoReq == 0
Dirs == 1..NumReqs  \* names tempfile.mkdtemp can return
NoDir == 0

\* --------------------------------------------------------------- strings
Upper == <<"A","B","C","D","E","F","G","H","I","J","K","L","M",
           "N","O","P","Q","R","S","T","U","V","W","X","Y","Z">>
LowerCase == <<"a","b","c","d","e","f","g","h","i","j","k","l","m",
               "n","o","p","q","r","s","t","u","v","w","x","y","z">>

LowerChar(c) ==
    IF \E i \in 1..Len(Upper) : Upper[i] = c
    THEN LowerCase[CHOOSE i \in 1..Len(Upper) : Upper[i] = c]
    ELSE c

\* str.lower()
Lower(s) == [i \in 1..Len(s) |-> LowerChar(s[i])]

\* str.split(sep): the pieces between the separators, never an empty list
RECURSIVE Split(_, _)
Split(s, sep) ==
    IF \A i \in 1..Len(s) : s[i] # sep
    THEN << s >>
    ELSE LET i == CHOOSE k \in 1..Len(s) :
                      s[k] = sep /\ \A j \in 1..(k-1) : s[j] # sep
         IN  << SubSeq(s, 1, i-1) >> \o Split(SubSeq(s, i+1, Len(s)), sep)

\* str.endswith(suffix)
EndsWith(s, suffix) ==
    /\ Len(s) >= Len(suffix)
    /\ SubSeq(s, Len(s) - Len(suffix) + 1, Len(s)) = suffix

\* os.path.basename(path): what follows the last '/'
Basename(path) ==
    LET parts == Split(path, "/") IN parts[Len(parts)]

HasDot(s) == \E i \in 1..Len(s) : s[i] = "."

\* the name of a file without its last extension (a tool's "base name")
StripExt(name) ==
    IF ~HasDot(name) THEN name
    ELSE LET i == CHOOSE k \in 1..Len(name) :
                      name[k] = "." /\ \A j \in (k+1)..Len(name) : name[j] # "."
         IN  SubSeq(name, 1, i-1)

\* ------------------------------------------------------------ extensions
pdf  == <<"p","d","f">>
txt  == <<"t","x","t">>
docx == <<"d","o","c","x">>
doc  == <<"d","o","c">>
xlsx == <<"x","l","s","x">>
xls  == <<"x","l","s">>
pptx == <<"p","p","t","x">>
ppt  == <<"p","p","t">>
odt  == <<"o","d","t">>
ods  == <<"o","d","s">>
odp  == <<"o","d","p">>
png  == <<"p","n","g">>
jpg  == <<"j","p","g">>
jpeg == <<"j","p","e","g">>
webp == <<"w","e","b","p">>
gif  == <<"g","i","f">>
bmp  == <<"b","m","p">>

\* SUPPORTED_MIME_TYPES
SUPPORTED_MIME_TYPES ==
    (pdf :> "application/pdf") @@ (txt :> "text/plain") @@
    (docx :> "application/vnd.openxmlformats-officedocument.wordprocessingml.document") @@
    (doc :> "application/msword") @@
    (xlsx :> "application/vnd.openxmlformats-officedocument.spreadsheetml.sheet") @@
    (xls :> "application/vnd.ms-excel") @@
    (pptx :> "application/vnd.openxmlformats-officedocument.presentationml.presentation") @@
    (ppt :> "application/vnd.ms-powerpoint") @@
    (odt :> "application/vnd.oasis.opendocument.text") @@
    (ods :> "application/vnd.oasis.opendocument.spreadsheet") @@
    (odp :> "application/vnd.oasis.opendocument.presentation") @@
    (png :> "image/png") @@ (jpg :> "image/jpeg") @@ (jpeg :> "image/jpeg") @@
    (webp :> "image/webp") @@ (gif :> "image/gif") @@ (bmp :> "image/bmp")

\* CONVERSION_MATRIX
CONVERSION_MATRIX ==
    (<<docx, pdf>> :> "libreoffice") @@ (<<doc, pdf>> :> "libreoffice") @@
    (<<xlsx, pdf>> :> "libreoffice") @@ (<<xls, pdf>> :> "libreoffice") @@
    (<<pptx, pdf>> :> "libreoffice") @@ (<<ppt, pdf>> :> "libreoffice") @@
    (<<odt, pdf>> :> "libreoffice") @@ (<<ods, pdf>> :> "libreoffice") @@
    (<<odp, pdf>> :> "libreoffice") @@
    (<<png, jpg>> :> "imagemagick") @@ (<<png, webp>> :> "imagemagick") @@
    (<<png, gif>> :> "imagemagick") @@ (<<png, bmp>> :> "imagemagick") @@
    (<<jpg, png>> :> "imagemagick") @@ (<<jpg, webp>> :> "imagemagick") @@
    (<<webp, png>> :> "imagemagick") @@ (<<webp, jpg>> :> "imagemagick") @@
    (<<pdf, txt>> :> "pdftotext") @@ (<<pdf, png>> :> "imagemagick")

NoTool == "None"

\* dict.get(key) / dict.get(key, default)
MatrixGet(pair) ==
    IF pair \in DOMAIN CONVERSION_MATRIX THEN CONVERSION_MATRIX[pair] ELSE NoTool

MimeGet(ext, default) ==
    IF ext \in DOMAIN SUPPORTED_MIME_TYPES THEN SUPPORTED_MIME_TYPES[ext] ELSE default

\* ----------------------------------------------------------- get_command
NoPath == << >>
InputPrefix  == <<"i","n","p","u","t",".">>
OutputPrefix == <<"o","u","t","p","u","t",".">>
PageZero == <<"[","0","]">>
DotPdf == <<".">> \o pdf

\* os.path.join(temp_dir, name): a path is the pair of the directory and the
\* file name inside it
Join(dir, name) == << dir, name >>

\* get_command(tool, input_path, to_format, temp_dir): the argument vector
\* (a record of its meaningful arguments) and the expected output path
get_command(tool, input_path, to_format, temp_dir) ==
    LET output_path == Join(temp_dir, OutputPrefix \o to_format) IN
    CASE tool = "libreoffice" ->
            [command |-> [argv0 |-> "libreoffice", convert_to |-> to_format,
                          outdir |-> temp_dir, input |-> input_path,
                          output |-> NoPath],
             output_path |-> output_path]
      [] tool = "imagemagick" ->
            [command |-> [argv0 |-> "convert", convert_to |-> << >>,
                          outdir |-> NoDir,
                          input |-> IF EndsWith(input_path[2], DotPdf)
                                    THEN << input_path[1], input_path[2] \o PageZero >>
                                    ELSE input_path,
                          output |-> output_path],
             output_path |-> output_path]
      [] tool = "pdftotext" ->
            [command |-> [argv0 |-> "pdftotext", convert_to |-> << >>,
                          outdir |-> NoDir, input |-> input_path,
                          output |-> output_path],
             output_path |-> output_path]
      [] OTHER ->
            [command |-> [argv0 |-> "", convert_to |-> << >>, outdir |-> NoDir,
                          input |-> NoPath, output |-> NoPath],
             output_path |-> NoPath]

\* ---------------------------------------------------------------- inputs
README    == <<"R","E","A","D","M","E">>
a_xyz     == <<"a",".","x","y","z">>
a_docx    == <<"a",".","d","o","c","x">>
a_png     == <<"a",".","p","n","g">>
JPG       == <<"J","P","G">>
url_a_png == <<"/","f","/">> \o a_png
url_dir   == <<"/","f","/">>

\* file.filename of an upload
UploadNames == { README, docx, a_xyz, a_docx, a_png }
\* urlparse(url).path of a URL request
UrlPaths == { url_a_png, url_dir, <<"/">> \o a_xyz }
\* to_format
Targets == { pdf, JPG }
\* what client.get / raise_for_status yields: the body, an error status of
\* the upstream server, or a transport error
UpstreamResults == { "ok", "404", "503", "RequestError" }
UpstreamStatus(u) == IF u = "404" THEN 404 ELSE 503

\* ----------------------------------------------------------------- state
VARIABLES
    req,      \* per request: position, arguments, locals, exception, response
    dirs,     \* directories that exist under the scratch root
    files,    \* files that exist: pairs << directory, name >>
    child,    \* per request: the child process of subprocess.run
    loop      \* the request whose coroutine is running on the event loop

vars == << req, dirs, files, child, loop >>

NoExc == [type |-> "None", status_code |-> 0, detail |-> ""]
HTTPException(code, detail) ==
    [type |-> "HTTPException", status_code |-> code, detail |-> detail]
Exc(type) == [type |-> type, status_code |-> 0, detail |-> ""]

NoProcess  == [returncode |-> -1, stdout |-> "", stderr |-> ""]
NoResponse == [path |-> NoPath, media_type |-> "", background |-> NoDir]
NoCommand  == get_command(NoTool, NoPath, << >>, NoDir).command

InitReq ==
    [pc |-> "idle", endpoint |-> "", name |-> << >>, to_format |-> << >>,
     original_filename |-> << >>, from_format |-> << >>, tool |-> NoTool,
     temp_dir |-> NoDir, input_path |-> NoPath, command |-> NoCommand,
     output_path |-> NoPath, process |-> NoProcess, timed_out |-> FALSE,
     error_details |-> "", exc |-> NoExc, response |-> NoResponse,
     status |-> 0, sent |-> 0, conn |-> "none", rmtree_calls |-> 0,
     spawns |-> 0]

Init ==
    /\ req = [r \in Reqs |-> InitReq]
    /\ dirs = {}
    /\ files = {}
    /\ child = [r \in Reqs |-> "none"]
    /\ loop = NoReq

\* shutil.rmtree(d) on an existing directory: it and all its contents go
RmtreeDirs(d)  == dirs \ {d}
RmtreeFiles(d) == { f \in files : f[1] # d }

\* ------------------------------------------------------------- endpoints
\* A request reaches the server on POST /convert or POST /convert-from-url.
\* The handler starts and suspends at its first await (file.read /
\* client.get).  What the request carries is drawn when the handler reads it.
Arrive(r) ==
    /\ req[r].pc = "idle"
    /\ \E ep \in {"convert", "convert_from_url"} :
         req' = [req EXCEPT ![r].endpoint = ep,
                            ![r].pc = IF ep = "convert" THEN "read" ELSE "fetch"]
    /\ UNCHANGED << dirs, files, child, loop >>

\* convert_file_upload after `await file.read()`: calls process_conversion
\* with the upload's file name and the to_format of the query
convert_file_upload(r) ==
    /\ req[r].pc = "read"
    /\ loop = NoReq
    /\ loop' = r
    /\ \E n \in UploadNames, t \in Targets :
         req' = [req EXCEPT ![r].name = n, ![r].to_format = t,
                            ![r].original_filename = n,
                            ![r].pc = "resolve"]
    /\ UNCHANGED << dirs, files, child >>

\* convert_from_url after `await client.get(...)`: raise_for_status, the
\* file name from the URL path, then process_conversion
convert_from_url(r) ==
    /\ req[r].pc = "fetch"
    /\ loop = NoReq
    /\ loop' = r
    /\ \E n \in UrlPaths, t \in Targets, u \in UpstreamResults :
         LET original_filename == Basename(n) IN
         req' = [req EXCEPT
            ![r].name = IF u = "ok" THEN n ELSE << >>,
            ![r].to_format = IF u = "ok" THEN t ELSE << >>,
            ![r].original_filename = IF u = "ok" THEN original_filename ELSE << >>,
            ![r].exc = CASE u = "RequestError" -> Exc("RequestError")
                         [] u \in {"404", "503"} ->
                              [type |-> "HTTPStatusError",
                               status_code |-> UpstreamStatus(u), detail |-> ""]
                         [] original_filename = << >> ->
                              HTTPException(400, "No se pudo determinar el nombre del archivo desde la URL.")
                         [] OTHER -> NoExc,
            ![r].pc = IF u = "ok" /\ original_filename # << >>
                      THEN "resolve" ELSE "raised"]
    /\ UNCHANGED << dirs, files, child >>

\* ---------------------------------------------------- process_conversion
\* Resolve as it would be if the pair were built from to_format as given,
\* without lower()
Resolve_TargetAsGiven(r) ==
    /\ req[r].pc = "resolve"
    /\ loop = r
    /\ LET parts == Split(req[r].original_filename, ".")
           from_format == Lower(parts[Len(parts)])
           conversion_pair == << from_format, req[r].to_format >>
           tool == MatrixGet(conversion_pair)
       IN  req' = [req EXCEPT
              ![r].from_format = from_format,
              ![r].tool = tool,
              ![r].exc = IF tool = NoTool
                         THEN HTTPException(400, "Conversion no soportada.")
                         ELSE NoExc,
              ![r].pc = IF tool = NoTool THEN "raised" ELSE "mkdtemp"]
    /\ UNCHANGED << dirs, files, child, loop >>

\* lines 121-130: the source extension, the pair, the registry lookup
Resolve(r) ==
    /\ req[r].pc = "resolve"
    /\ loop = r
    /\ LET parts == Split(req[r].original_filename, ".")
           from_format == Lower(parts[Len(parts)])
           conversion_pair == << from_format, Lower(req[r].to_format) >>
           tool == MatrixGet(conversion_pair)
       IN  req' = [req EXCEPT
              ![r].from_format = IF Len(parts) = 0 THEN << >> ELSE from_format,
              ![r].tool = IF Len(parts) = 0 THEN NoTool ELSE tool,
              ![r].exc = CASE Len(parts) = 0 ->
                                HTTPException(400, "El archivo no tiene extension.")
                           [] tool = NoTool ->
                                HTTPException(400, "Conversion no soportada.")
                           [] OTHER -> NoExc,
              ![r].pc = IF Len(parts) = 0 \/ tool = NoTool
                        THEN "raised" ELSE "mkdtemp"]
    /\ UNCHANGED << dirs, files, child, loop >>

\* Mkdtemp as it would be with a name derived from something that may
\* repeat: the directory may exist already
Mkdtemp_NameMayExist(r) ==
    /\ req[r].pc = "mkdtemp"
    /\ loop = r
    /\ \E d \in Dirs :
         /\ dirs' = dirs \cup {d}
         /\ req' = [req EXCEPT ![r].temp_dir = d, ![r].pc = "stage"]
    /\ UNCHANGED << files, child, loop >>

\* line 132: tempfile.mkdtemp() creates a directory that did not exist
Mkdtemp(r) ==
    /\ req[r].pc = "mkdtemp"
    /\ loop = r
    /\ \E d \in Dirs \ dirs :
         /\ dirs' = dirs \cup {d}
         /\ req' = [req EXCEPT ![r].temp_dir = d, ![r].pc = "stage"]
    /\ UNCHANGED << files, child, loop >>

\* StageInput as it would be if the input were written under the name the
\* caller gave
StageInput_CallerName(r) ==
    /\ req[r].pc = "stage"
    /\ loop = r
    /\ LET input_path == Join(req[r].temp_dir, req[r].original_filename) IN
       \/ /\ files' = files \cup {input_path}
          /\ req' = [req EXCEPT ![r].input_path = input_path, ![r].pc = "run"]
       \/ /\ files' \in { files, files \cup {input_path} }
          /\ req' = [req EXCEPT ![r].input_path = input_path,
                                ![r].exc = Exc("OSError"), ![r].pc = "except"]
    /\ UNCHANGED << dirs, child, loop >>

\* lines 134-136: the input is written under input.<from_format>; open or
\* write can fail (OSError), with or without the file left behind
StageInput(r) ==
    /\ req[r].pc = "stage"
    /\ loop = r
    /\ LET input_path == Join(req[r].temp_dir, InputPrefix \o req[r].from_format) IN
       \/ /\ files' = files \cup {input_path}
          /\ req' = [req EXCEPT ![r].input_path = input_path, ![r].pc = "run"]
       \/ /\ files' \in { files, files \cup {input_path} }
          /\ req' = [req EXCEPT ![r].input_path = input_path,
                                ![r].exc = Exc("OSError"), ![r].pc = "except"]
    /\ UNCHANGED << dirs, child, loop >>

\* Spawn as it would be with an awaited subprocess in place of
\* subprocess.run: the coroutine yields the event loop while the child runs
Spawn_Awaited(r) ==
    /\ req[r].pc = "run"
    /\ loop = r
    /\ LET built == get_command(req[r].tool, req[r].input_path,
                                Lower(req[r].to_format), req[r].temp_dir)
       IN  req' = [req EXCEPT ![r].command = built.command,
                              ![r].output_path = built.output_path,
                              ![r].spawns = @ + 1,
                              ![r].pc = "wait"]
    /\ child' = [child EXCEPT ![r] = "running"]
    /\ loop' = NoReq
    /\ UNCHANGED << dirs, files >>

\* lines 138-142, first half: get_command, then subprocess.run starts the
\* child and waits for it
Spawn(r) ==
    /\ req[r].pc = "run"
    /\ loop = r
    /\ LET built == get_command(req[r].tool, req[r].input_path,
                                Lower(req[r].to_format), req[r].temp_dir)
       IN  req' = [req EXCEPT ![r].command = built.command,
                              ![r].output_path = built.output_path,
                              ![r].spawns = @ + 1,
                              ![r].pc = "wait"]
    /\ child' = [child EXCEPT ![r] = "running"]
    /\ UNCHANGED << dirs, files, loop >>

\* Where a tool that works as documented puts its result: libreoffice
\* --convert-to X --outdir D writes D/<base name of the input>.X; convert and
\* pdftotext write the destination argument.
ToolOutputPath(command) ==
    IF command.argv0 = "libreoffice"
    THEN Join(command.outdir,
              StripExt(command.input[2]) \o <<".">> \o command.convert_to)
    ELSE command.output

\* What the tool, an opaque process, did to the scratch storage by the time
\* it ends: nothing, wrote its result, or removed its working directory.
ToolEffects == { "nothing", "writes_output", "removes_workspace" }

DirsAfterTool(eff, d) ==
    IF eff = "removes_workspace" THEN RmtreeDirs(d) ELSE dirs

FilesAfterTool(eff, command, d) ==
    CASE eff = "removes_workspace" -> RmtreeFiles(d)
      [] eff = "writes_output" -> files \cup { ToolOutputPath(command) }
      [] OTHER -> files

\* What the pipes of the child captured: stdout and stderr, decoded
CapturedOutputs ==
    { [stdout |-> "out", stderr |-> "warn"], [stdout |-> "out", stderr |-> ""] }

\* subprocess.run returns: the child exited by itself within the timeout
ToolExit(r) ==
    /\ req[r].pc = "wait"
    /\ loop = r
    /\ \E eff \in ToolEffects, rc \in {0, 1}, cap \in CapturedOutputs :
         /\ dirs' = DirsAfterTool(eff, req[r].temp_dir)
         /\ files' = FilesAfterTool(eff, req[r].command, req[r].temp_dir)
         /\ req' = [req EXCEPT ![r].process = [returncode |-> rc,
                                               stdout |-> cap.stdout,
                                               stderr |-> cap.stderr],
                               ![r].pc = "check"]
    /\ child' = [child EXCEPT ![r] = "exited"]
    /\ UNCHANGED loop

\* ToolTimeout as it would be if the wait gave up without killing the child
ToolTimeout_NoKill(r) ==
    /\ req[r].pc = "wait"
    /\ loop = r
    /\ \E eff \in ToolEffects :
         /\ dirs' = DirsAfterTool(eff, req[r].temp_dir)
         /\ files' = FilesAfterTool(eff, req[r].command, req[r].temp_dir)
    /\ req' = [req EXCEPT ![r].timed_out = TRUE,
                          ![r].exc = Exc("TimeoutExpired"),
                          ![r].pc = "except"]
    /\ UNCHANGED << child, loop >>

\* subprocess.run(timeout=120) expires: it kills the child, waits for it and
\* raises TimeoutExpired
ToolTimeout(r) ==
    /\ req[r].pc = "wait"
    /\ loop = r
    /\ \E eff \in ToolEffects :
         /\ dirs' = DirsAfterTool(eff, req[r].temp_dir)
         /\ files' = FilesAfterTool(eff, req[r].command, req[r].temp_dir)
    /\ req' = [req EXCEPT ![r].timed_out = TRUE,
                          ![r].exc = Exc("TimeoutExpired"),
                          ![r].pc = "except"]
    /\ child' = [child EXCEPT ![r] = "killed"]
    /\ UNCHANGED loop

\* ErrorDetails as it would be with the two streams the other way round
ErrorDetails_StdoutFirst(stderr, stdout) ==
    IF stdout # "" THEN stdout ELSE stderr

\* line 145: process.stderr.decode("utf-8") or process.stdout.decode("utf-8")
ErrorDetails(stderr, stdout) ==
    IF stderr # "" THEN stderr ELSE stdout

\* ConversionFailed as it would be if only the exit code were looked at
ConversionFailed_ExitCodeOnly(output_path, returncode) ==
    returncode # 0

\* line 144: the condition under which the conversion is an error
ConversionFailed(output_path, returncode) ==
    output_path \notin files \/ returncode # 0

\* CheckResult as it would be if the success path called shutil.rmtree
\* itself instead of handing it to the response as a background task
CheckResult_EagerCleanup(r) ==
    /\ req[r].pc = "check"
    /\ loop = r
    /\ IF ConversionFailed(req[r].output_path, req[r].process.returncode)
       THEN /\ req' = [req EXCEPT
                  ![r].error_details = ErrorDetails(req[r].process.stderr,
                                                    req[r].process.stdout),
                  ![r].exc = HTTPException(500, "Error en la conversion."),
                  ![r].pc = "except"]
            /\ UNCHANGED << dirs, files >>
       ELSE /\ req' = [req EXCEPT
                  ![r].response =
                      [path |-> req[r].output_path,
                       media_type |-> MimeGet(req[r].to_format, "application/octet-stream"),
                       background |-> req[r].temp_dir],
                  ![r].rmtree_calls = @ + 1,
                  ![r].pc = "returned"]
            /\ dirs' = RmtreeDirs(req[r].temp_dir)
            /\ files' = RmtreeFiles(req[r].temp_dir)
    /\ UNCHANGED << child, loop >>

\* CheckResult as it would be if output on stderr counted as a failure
CheckResult_StderrIsFailure(r) ==
    /\ req[r].pc = "check"
    /\ loop = r
    /\ IF \/ ConversionFailed(req[r].output_path, req[r].process.returncode)
          \/ req[r].process.stderr # ""
       THEN req' = [req EXCEPT
                ![r].error_details = ErrorDetails(req[r].process.stderr,
                                                  req[r].process.stdout),
                ![r].exc = HTTPException(500, "Error en la conversion."),
                ![r].pc = "except"]
       ELSE req' = [req EXCEPT
                ![r].response =
                    [path |-> req[r].output_path,
                     media_type |-> MimeGet(req[r].to_format, "application/octet-stream"),
                     background |-> req[r].temp_dir],
                ![r].pc = "returned"]
    /\ UNCHANGED << dirs, files, child, loop >>

\* lines 144-163: the check of the result, then the FileResponse with the
\* BackgroundTask(shutil.rmtree, temp_dir)
CheckResult(r) ==
    /\ req[r].pc = "check"
    /\ loop = r
    /\ IF ConversionFailed(req[r].output_path, req[r].process.returncode)
       THEN req' = [req EXCEPT
                ![r].error_details = ErrorDetails(req[r].process.stderr,
                                                  req[r].process.stdout),
                ![r].exc = HTTPException(500, "Error en la conversion."),
                ![r].pc = "except"]
       ELSE req' = [req EXCEPT
                ![r].response =
                    [path |-> req[r].output_path,
                     media_type |-> MimeGet(req[r].to_format, "application/octet-stream"),
                     background |-> req[r].temp_dir],
                ![r].pc = "returned"]
    /\ UNCHANGED << dirs, files, child, loop >>

\* ExceptCleanup as it would be with one retry of a failed conversion in a
\* fresh workspace
ExceptCleanup_RetryOnce(r) ==
    /\ req[r].pc = "except"
    /\ loop = r
    /\ dirs' = RmtreeDirs(req[r].temp_dir)
    /\ files' = RmtreeFiles(req[r].temp_dir)
    /\ req' = [req EXCEPT
          ![r].rmtree_calls = @ + 1,
          ![r].exc = IF req[r].temp_dir \in dirs THEN @ ELSE Exc("FileNotFoundError"),
          ![r].pc = IF req[r].spawns = 1 /\ req[r].rmtree_calls = 0
                    THEN "mkdtemp" ELSE "raised"]
    /\ UNCHANGED << child, loop >>

\* ExceptCleanup as it would be with `except HTTPException` in place of
\* `except Exception`: other exceptions leave without the rmtree
ExceptCleanup_HTTPExceptionOnly(r) ==
    /\ req[r].pc = "except"
    /\ loop = r
    /\ IF req[r].exc.type = "HTTPException"
       THEN /\ dirs' = RmtreeDirs(req[r].temp_dir)
            /\ files' = RmtreeFiles(req[r].temp_dir)
            /\ req' = [req EXCEPT
                  ![r].rmtree_calls = @ + 1,
                  ![r].exc = IF req[r].temp_dir \in dirs
                             THEN @ ELSE Exc("FileNotFoundError"),
                  ![r].pc = "raised"]
       ELSE /\ req' = [req EXCEPT ![r].pc = "raised"]
            /\ UNCHANGED << dirs, files >>
    /\ UNCHANGED << child, loop >>

\* lines 164-166: except Exception: shutil.rmtree(temp_dir); raise e.
\* rmtree of a missing directory raises FileNotFoundError, which then is the
\* exception that leaves process_conversion.
ExceptCleanup(r) ==
    /\ req[r].pc = "except"
    /\ loop = r
    /\ dirs' = RmtreeDirs(req[r].temp_dir)
    /\ files' = RmtreeFiles(req[r].temp_dir)
    /\ req' = [req EXCEPT
          ![r].rmtree_calls = @ + 1,
          ![r].exc = IF req[r].temp_dir \in dirs THEN @ ELSE Exc("FileNotFoundError"),
          ![r].pc = "raised"]
    /\ UNCHANGED << child, loop >>

\* -------------------------------------------------- leaving the endpoint
\* The status the caller gets for the exception that leaves the endpoint:
\* /convert wraps every Exception, HTTPException included, into a 500
\* (lines 92-93); /convert-from-url maps HTTPStatusError to the upstream
\* status and RequestError to 400 (lines 113-116), lets an HTTPException
\* through with its own status, and anything else is the server's 500.
SurfacedStatus_FetchFailureIs400(endpoint, exc) ==
    IF endpoint = "convert" THEN 500
    ELSE CASE exc.type = "HTTPStatusError" -> 400
           [] exc.type = "RequestError" -> 400
           [] exc.type = "HTTPException" -> exc.status_code
           [] OTHER -> 500

SurfacedStatus(endpoint, exc) ==
    IF endpoint = "convert" THEN 500
    ELSE CASE exc.type = "HTTPStatusError" -> exc.status_code
           [] exc.type = "RequestError" -> 400
           [] exc.type = "HTTPException" -> exc.status_code
           [] OTHER -> 500

\* the exception leaves the endpoint handler: the request has failed with
\* the status of the error response
HandlerRaise(r) ==
    /\ req[r].pc = "raised"
    /\ loop = r
    /\ req' = [req EXCEPT ![r].status = SurfacedStatus(req[r].endpoint, req[r].exc),
                          ![r].pc = "failed"]
    /\ UNCHANGED << dirs, files, child, loop >>

\* the error response has gone out: the coroutine ends, the request and the
\* frames of its handlers are dropped, the loop is free again
ErrorSent(r) ==
    /\ req[r].pc = "failed"
    /\ loop = r
    /\ loop' = NoReq
    /\ req' = [req EXCEPT ![r] = [InitReq EXCEPT !.pc = "closed"]]
    /\ child' = [child EXCEPT ![r] = "none"]
    /\ UNCHANGED << dirs, files >>

\* the endpoint handler returns the FileResponse: the frames of the handlers
\* are dropped, the response (with its background task) lives on and its
\* delivery begins
HandlerReturn(r) ==
    /\ req[r].pc = "returned"
    /\ loop = r
    /\ loop' = NoReq
    /\ req' = [req EXCEPT ![r] = [InitReq EXCEPT !.pc = "sending",
                                                 !.conn = "open",
                                                 !.response = req[r].response,
                                                 !.status = 200]]
    /\ child' = [child EXCEPT ![r] = "none"]
    /\ UNCHANGED << dirs, files >>

\* --------------------------------------------------------------- delivery
\* FileResponse sends the file in chunks with `await send(...)` and, once
\* the last send has returned, awaits the background task.  When the client
\* has gone, a send either is dropped silently or raises, depending on the
\* ASGI server; a send that raises ends the response without the
\* background task (what was sent of the body is dropped with the response).
\* Either way the exchange on the connection is over.
SendChunk(r) ==
    /\ req[r].pc = "sending"
    /\ loop = NoReq
    /\ \/ req' = [req EXCEPT
              ![r].sent = @ + 1,
              ![r].pc = IF req[r].sent + 1 = OutChunks THEN "background" ELSE "sending",
              ![r].conn = IF req[r].sent + 1 = OutChunks THEN "over" ELSE @]
       \/ /\ req[r].conn = "gone"
          /\ req' = [req EXCEPT ![r].pc = "aborted", ![r].conn = "over",
                                ![r].sent = 0]
    /\ UNCHANGED << dirs, files, child, loop >>

\* the caller goes away while the body is being delivered
Disconnect(r) ==
    /\ req[r].pc = "sending"
    /\ req[r].conn = "open"
    /\ req' = [req EXCEPT ![r].conn = "gone"]
    /\ UNCHANGED << dirs, files, child, loop >>

\* the BackgroundTask runs shutil.rmtree(temp_dir) in the thread pool
RunBackground(r) ==
    /\ req[r].pc = "background"
    /\ dirs' = RmtreeDirs(req[r].response.background)
    /\ files' = RmtreeFiles(req[r].response.background)
    /\ req' = [req EXCEPT ![r].rmtree_calls = @ + 1, ![r].pc = "done"]
    /\ UNCHANGED << child, loop >>

\* ---------------------------------------------------------- specification
Next ==
    \E r \in Reqs :
        \/ Arrive(r)
        \/ convert_file_upload(r)
        \/ convert_from_url(r)
        \/ Resolve(r)
        \/ Mkdtemp(r)
        \/ StageInput(r)
        \/ Spawn(r)
        \/ ToolExit(r)
        \/ ToolTimeout(r)
        \/ CheckResult(r)
        \/ ExceptCleanup(r)
        \/ HandlerRaise(r)
        \/ ErrorSent(r)
        \/ HandlerReturn(r)
        \/ SendChunk(r)
        \/ Disconnect(r)
        \/ RunBackground(r)

Spec == Init /\ [][Next]_vars

\* The delivery mechanism makes progress: a send that can be made is made
\* (it returns or raises), and the thread pool runs a task it was given.
\* Nothing is assumed of the callers (Arrive, Disconnect).
Fairness ==
    \A r \in Reqs :
        /\ WF_vars(SendChunk(r))
        /\ WF_vars(RunBackground(r))

FairSpec == Spec /\ Fairness

\* ------------------------------------- one conversion, many file names
\* process_conversion run for one upload, from its first line to the point
\* where it returns or raises, over a wider set of file names and target
\* formats than Spec affords with concurrent requests.
A_PNG      == <<"A",".","P","N","G">>
a_pdf      == <<"a",".","p","d","f">>
a_jpg      == <<"a",".","j","p","g">>
up_a_png   == <<".",".","/">> \o a_png
a_dot_etc  == <<"a",".","/","e","t","c">>
a_dot      == <<"a",".">>
PDF        == <<"P","D","F">>
up_pdf     == <<".",".","/">> \o pdf

WideNames == { README, docx, a_xyz, a_docx, a_png, A_PNG, a_pdf, a_jpg,
               up_a_png, a_dot_etc, a_dot }
WideTargets == { pdf, PDF, jpg, JPG, jpeg, png, txt, up_pdf }

WideInit ==
    /\ \E n \in WideNames, t \in WideTargets :
          req = [r \in Reqs |->
                   IF r = 1
                   THEN [InitReq EXCEPT !.pc = "resolve", !.endpoint = "convert",
                                        !.name = n, !.to_format = t,
                                        !.original_filename = n]
                   ELSE InitReq]
    /\ dirs = {}
    /\ files = {}
    /\ child = [r \in Reqs |-> "none"]
    /\ loop = 1

WideNext ==
    \E r \in Reqs :
        \/ Resolve(r)
        \/ Mkdtemp(r)
        \/ StageInput(r)
        \/ Spawn(r)
        \/ ToolExit(r)
        \/ ToolTimeout(r)
        \/ CheckResult(r)
        \/ ExceptCleanup(r)

WideSpec == WideInit /\ [][WideNext]_vars

\* ------------------------------------------------------------ properties
\* the workspace of a request, while its handler frames or its response live
Workspace(r) ==
    IF req[r].temp_dir # NoDir THEN req[r].temp_dir ELSE req[r].response.background

WorkspaceExists(d) == d \in dirs \/ \E f \in files : f[1] = d

\* process_conversion has raised / the endpoint has turned it into a status
Failing(r) == req[r].pc \in {"raised", "failed"}

\* C1: a request that created a workspace and fails (timeout, non-zero exit,
\* missing output, fault while staging the input) has no workspace directory
\* left when the error leaves process_conversion and when it is surfaced.
C1_FailureLeavesNoWorkspace ==
    \A r \in Reqs :
        (Failing(r) /\ req[r].temp_dir # NoDir)
            => (~WorkspaceExists(req[r].temp_dir) /\ req[r].rmtree_calls >= 1)

C1_Witness ==
    \E r \in Reqs :
        /\ req[r].pc = "failed"
        /\ req[r].temp_dir # NoDir
        /\ req[r].exc.type = "OSError"
        /\ ~WorkspaceExists(req[r].temp_dir)

\* C2: for a request that succeeded, the workspace and the output file in it
\* exist for as long as the body is being delivered, no destroy happens
\* before the last chunk has gone out, and once delivery has completed the
\* workspace is eventually destroyed.
C2_WorkspaceOutlivesDelivery ==
    /\ [](\A r \in Reqs :
            req[r].pc \in {"sending", "background"} =>
                /\ req[r].response.background \in dirs
                /\ req[r].response.path \in files
                /\ req[r].rmtree_calls = 0)
    /\ \A r \in Reqs :
            (req[r].pc = "background") ~>
                (req[r].pc = "done" /\ req[r].rmtree_calls = 1
                    /\ ~WorkspaceExists(req[r].response.background))

C2_Witness ==
    \E r \in Reqs :
        /\ req[r].pc = "done"
        /\ req[r].sent = OutChunks
        /\ req[r].rmtree_calls = 1
        /\ ~WorkspaceExists(req[r].response.background)

\* C3: when the caller disconnects after a successful conversion and the
\* delivery attempt has ended on that, the deferred cleanup has run and the
\* workspace is removed.
C3_CleanupAfterDisconnect ==
    \A r \in Reqs :
        req[r].pc = "aborted" => ~WorkspaceExists(req[r].response.background)

\* C4: every workspace that was created is destroyed exactly once: at the
\* end of a request's lifecycle exactly one of the synchronous destroy and
\* the deferred destroy was performed, and never more than one.
C4_DestroyedExactlyOnce ==
    \A r \in Reqs :
        /\ req[r].rmtree_calls <= 1
        /\ (req[r].pc = "failed" /\ req[r].temp_dir # NoDir) => req[r].rmtree_calls = 1
        /\ req[r].pc \in {"done", "aborted"} => req[r].rmtree_calls = 1

\* C5: destroying a workspace that is already removed (for example by the
\* tool) does not raise: no FileNotFoundError ever comes out of the destroy.
C5_DestroyIdempotent ==
    \A r \in Reqs : req[r].exc.type # "FileNotFoundError"

\* C6: a file name without '.' makes process_conversion fail with the
\* missing-extension error, status 400, and no workspace is created.
C6_NoDotIsMissingExtension ==
    \A r \in Reqs :
        (req[r].original_filename # << >> /\ ~HasDot(req[r].original_filename)
            /\ req[r].pc \notin {"resolve"})
            => /\ req[r].pc \in {"raised", "failed"}
               /\ req[r].exc = HTTPException(400, "El archivo no tiene extension.")
               /\ req[r].temp_dir = NoDir

\* C7: a pair that is not in the registry is surfaced with status 400 on
\* both endpoints, with no workspace created and no child process spawned.
C7_UnsupportedPairIs400 ==
    \A r \in Reqs :
        (req[r].pc = "failed" /\ req[r].original_filename # << >>
            /\ << req[r].from_format, Lower(req[r].to_format) >>
                   \notin DOMAIN CONVERSION_MATRIX)
            => /\ req[r].status = 400
               /\ req[r].temp_dir = NoDir
               /\ child[r] = "none"

\* C8: process_conversion returns a response only if the tool did not time
\* out, exited with 0 and the expected output path exists; a request whose
\* tool exited with 0 and that failed all the same (no output file) is
\* surfaced with status 500.
C8_SucceededOnlyWithOutput ==
    \A r \in Reqs :
        /\ req[r].pc = "returned" =>
              /\ ~req[r].timed_out
              /\ req[r].process.returncode = 0
              /\ req[r].output_path \in files
              /\ req[r].response.path = req[r].output_path
        /\ (req[r].pc = "failed" /\ req[r].process.returncode = 0) =>
              (req[r].status = 500 /\ req[r].response = NoResponse)

C8_Witness ==
    \E r \in Reqs :
        /\ req[r].pc = "failed"
        /\ req[r].process.returncode = 0
        /\ req[r].exc = HTTPException(500, "Error en la conversion.")
        /\ req[r].status = 500

\* C9: when the tool exceeds the timeout the request fails, with status 500,
\* its child process is dead and its workspace has been destroyed before the
\* error leaves process_conversion.
C9_TimeoutKillsAndCleans ==
    \A r \in Reqs :
        req[r].timed_out =>
            /\ req[r].pc \in {"except", "raised", "failed"}
            /\ child[r] = "killed"
            /\ Failing(r) => ~WorkspaceExists(req[r].temp_dir)
            /\ req[r].pc = "failed" => req[r].status = 500

C9_Witness ==
    \E r \in Reqs :
        /\ req[r].pc = "failed"
        /\ req[r].timed_out
        /\ req[r].exc.type = "TimeoutExpired"
        /\ req[r].status = 500
        /\ child[r] = "killed"

\* C10: a docx -> pdf request whose renderer exited with 0 and wrote its
\* file (the input's base name with the target extension, in the workspace)
\* succeeds with an output path ending in .pdf: the expected output path is
\* the path the renderer writes.
C10_DocxToPdfSucceeds ==
    \A r \in Reqs :
        (/\ req[r].from_format = docx
         /\ Lower(req[r].to_format) = pdf
         /\ req[r].process.returncode = 0
         /\ req[r].pc \notin {"wait", "check"}
         /\ ToolOutputPath(req[r].command) \in files)
            => /\ req[r].pc = "returned"
               /\ req[r].output_path = ToolOutputPath(req[r].command)
               /\ EndsWith(req[r].response.path[2], DotPdf)

\* what follows the last '.' of a name that has one
AfterLastDot(name) ==
    LET i == CHOOSE k \in 1..Len(name) :
                 name[k] = "." /\ \A j \in (k+1)..Len(name) : name[j] # "."
    IN  SubSeq(name, i+1, Len(name))

\* two strings that differ at most in the case of their letters
SameButCase(a, b) ==
    /\ Len(a) = Len(b)
    /\ \A i \in 1..Len(a) :
          \/ a[i] = b[i]
          \/ \E k \in 1..Len(Upper) : {a[i], b[i]} = {Upper[k], LowerCase[k]}

\* the registered pairs that the file name and the target format name,
\* letter case aside
PairsNamed(name, to_format) ==
    { p \in DOMAIN CONVERSION_MATRIX :
        SameButCase(p[1], AfterLastDot(name)) /\ SameButCase(p[2], to_format) }

\* the lookup of process_conversion has been made for request r
Resolved(r) ==
    \/ req[r].pc = "mkdtemp"
    \/ req[r].pc = "raised" /\ req[r].temp_dir = NoDir
                            /\ req[r].original_filename # << >>

\* C11: for a file name with an extension, the lookup yields a tool exactly
\* when (extension, target format) is a registered pair, letter case aside
\* on both, and then the tool registered for that pair; every other pair,
\* a pair reachable only through two registered ones included, yields none.
C11_ToolForExactlyRegisteredPairs ==
    \A r \in Reqs :
        (Resolved(r) /\ HasDot(req[r].original_filename)) =>
            LET named == PairsNamed(req[r].original_filename, req[r].to_format) IN
            /\ named = {} => (req[r].tool = NoTool /\ req[r].pc = "raised")
            /\ named # {} => (/\ req[r].pc = "mkdtemp"
                              /\ \E p \in named : req[r].tool = CONVERSION_MATRIX[p])

\* a.pdf -> jpg: pdf -> png and png -> jpg are registered, pdf -> jpg is not
C11_Witness ==
    \E r \in Reqs :
        /\ Resolved(r)
        /\ req[r].original_filename = a_pdf
        /\ req[r].to_format = jpg
        /\ << pdf, png >> \in DOMAIN CONVERSION_MATRIX
        /\ << png, jpg >> \in DOMAIN CONVERSION_MATRIX
        /\ req[r].tool = NoTool

\* C12: the Content-Type of a successful conversion is the MIME type
\* registered for the target format in lower case, and the generic type
\* only when that extension has none.
C12_ContentTypeOfLowercasedTarget ==
    \A r \in Reqs :
        req[r].pc = "returned" =>
            req[r].response.media_type =
                MimeGet(Lower(req[r].to_format), "application/octet-stream")

\* the fetch of /convert-from-url has failed and the failure is surfaced
FetchFailed(r) ==
    /\ req[r].pc = "failed"
    /\ req[r].exc.type \in {"RequestError", "HTTPStatusError"}

NothingStarted(r) ==
    /\ req[r].temp_dir = NoDir
    /\ req[r].spawns = 0
    /\ child[r] = "none"

\* C13 as stated: every failure of the upstream fetch, a network error or an
\* error status of the URL, is surfaced with status 400, with no workspace
\* and no child process.
C13_FetchFailureIs400 ==
    \A r \in Reqs :
        FetchFailed(r) => (req[r].status = 400 /\ NothingStarted(r))

\* C13: a network error of the upstream fetch is surfaced with status 400
\* and an error status of the URL with that same status; in both cases no
\* workspace is created and no child process is spawned.
C13_FetchFailureStatus ==
    \A r \in Reqs :
        FetchFailed(r) =>
            /\ req[r].exc.type = "RequestError" => req[r].status = 400
            /\ req[r].exc.type = "HTTPStatusError" =>
                   req[r].status = req[r].exc.status_code
            /\ NothingStarted(r)

C13_Witness ==
    \E r \in Reqs :
        /\ FetchFailed(r)
        /\ req[r].exc.type = "HTTPStatusError"
        /\ req[r].exc.status_code = 503
        /\ req[r].status = 503

\* request r is in flight with a workspace: from mkdtemp until its own
\* cleanup, in the handler or deferred
HoldsWorkspace(r) ==
    req[r].pc \in {"stage", "run", "wait", "check", "except",
                   "returned", "sending", "background"}

FilesIn(d, fs) == { f \in fs : f[1] = d }

ExitedNonZero(r) ==
    /\ req[r].process # NoProcess
    /\ req[r].process.returncode # 0

C16_StderrAloneIsNoFailure ==
    \A r \in Reqs :
        (/\ req[r].process # NoProcess
         /\ req[r].process.returncode = 0
         /\ ~req[r].timed_out
         /\ req[r].output_path \in files
         /\ req[r].pc # "check")
            => (/\ req[r].pc = "returned"
                /\ req[r].exc = NoExc
                /\ req[r].response.path = req[r].output_path)

C16_Witness ==
    \E r \in Reqs :
        /\ req[r].pc = "returned"
        /\ req[r].process.returncode = 0
        /\ req[r].process.stderr # ""
        /\ req[r].output_path \in files

\* request r has failed: an exception has been raised in process_conversion
\* or in its endpoint, and until the error response is out and after
Failed(r) == req[r].pc \in {"except", "raised", "failed", "closed"}

FailedRank(r) ==
    CASE req[r].pc = "except" -> 1
      [] req[r].pc = "raised" -> 2
      [] req[r].pc = "failed" -> 3
      [] req[r].pc = "closed" -> 4
      [] OTHER -> 0

\* C17: a request spawns at most one child process, and a failure is final:
\* a failed request stays failed, only moves on towards its error response,
\* starts no child, creates no directory or file, and once the error
\* response is out nothing of it changes.
C17_OneChildAndFailureIsTerminal ==
    /\ [](\A r \in Reqs : req[r].spawns <= 1)
    /\ [][\A r \in Reqs :
            /\ (child[r] # "running" /\ child'[r] = "running")
                   => (req[r].pc = "run" /\ req[r].spawns = 0)
            /\ Failed(r) =>
                 /\ Failed(r)'
                 /\ FailedRank(r)' >= FailedRank(r)
                 /\ child'[r] # "running"
                 /\ req'[r].spawns <= req[r].spawns
                 /\ req'[r] # req[r] => (dirs' \subseteq dirs /\ files' \subseteq files)
                 /\ req[r].pc = "failed" =>
                        (req'[r].pc = "failed" => req'[r] = req[r])
                 /\ req[r].pc = "closed" => req'[r] = req[r]]_vars

\* a request that spawned its one child has failed and been answered
C17_Witness ==
    \E r \in Reqs :
        /\ req[r].pc = "failed"
        /\ req[r].spawns = 1
        /\ child[r] \in {"exited", "killed"}

\* the extensions that occur in the registry of conversions
RegisteredExts ==
    { p[1] : p \in DOMAIN CONVERSION_MATRIX } \cup { p[2] : p \in DOMAIN CONVERSION_MATRIX }

HasSlash(name) == \E i \in 1..Len(name) : name[i] = "/"

\* input.<ext> or output.<ext>, <ext> registered and in lower case
CanonicalName(name) ==
    /\ ~HasSlash(name)
    /\ \E e \in RegisteredExts :
          /\ \A i \in 1..Len(e) : \A k \in 1..Len(Upper) : e[i] # Upper[k]
          /\ name \in { InputPrefix \o e, OutputPrefix \o e }

\* a path directly inside directory d with a canonical name
CanonicalIn(d, path) ==
    /\ path # NoPath
    /\ path[1] = d
    /\ CanonicalName(path[2])

\* what C18 says of everything but the tool's input argument
C18_Rest(r) ==
    /\ req[r].input_path # NoPath => CanonicalIn(req[r].temp_dir, req[r].input_path)
    /\ req[r].output_path # NoPath => CanonicalIn(req[r].temp_dir, req[r].output_path)
    /\ req[r].command # NoCommand =>
          /\ req[r].command.output # NoPath =>
                 CanonicalIn(req[r].temp_dir, req[r].command.output)
          /\ req[r].command.outdir \in {NoDir, req[r].temp_dir}
    /\ child[r] = "running" =>
          (req[r].temp_dir \in dirs /\ req[r].input_path \in files)

\* C18 as stated: whatever the file name and the target format, every path
\* written or passed to the tool, its input argument included, is
\* input.<ext> or output.<ext> directly in the workspace; no file is created
\* elsewhere; a child runs only with the workspace present and the input
\* staged.
C18_PathsAreCanonical ==
    /\ \A f \in files : f[1] \in dirs /\ CanonicalName(f[2])
    /\ \A r \in Reqs :
          /\ C18_Rest(r)
          /\ req[r].command # NoCommand =>
                 CanonicalIn(req[r].temp_dir, req[r].command.input)

\* C18: the same, except that the input argument of the raster converter for
\* a PDF is input.pdf followed by the page selector [0].
C18_PathsAreCanonicalButPageSelector ==
    /\ \A f \in files : f[1] \in dirs /\ CanonicalName(f[2])
    /\ \A r \in Reqs :
          /\ C18_Rest(r)
          /\ req[r].command # NoCommand =>
                 \/ CanonicalIn(req[r].temp_dir, req[r].command.input)
                 \/ /\ req[r].command.argv0 = "convert"
                    /\ req[r].command.input =
                          << req[r].temp_dir, InputPrefix \o pdf \o PageZero >>
                    /\ req[r].input_path = << req[r].temp_dir, InputPrefix \o pdf >>

\* the upload is named ../a.png and the child runs on input.png
C18_Witness ==
    \E r \in Reqs :
        /\ child[r] = "running"
        /\ req[r].original_filename = up_a_png
        /\ req[r].command.input = << req[r].temp_dir, InputPrefix \o png >>
        /\ req[r].command.input \in files

\* request r is between the creation of its workspace and the point where
\* the deferred cleanup is registered or the workspace destroyed
InConversionSpan(r) == req[r].pc \in {"stage", "run", "wait", "check", "except"}

AwaitsDeferredCleanup(r) ==
    /\ req[r].pc \in {"sending", "background"}
    /\ WorkspaceExists(req[r].response.background)

\* C19: a request between workspace creation and the registration of its
\* deferred cleanup (or the destruction of the workspace) holds the event
\* loop, so at most one request is in that span and at most one tool child
\* runs at any time.
C19_ConversionSpanIsAtomic ==
    /\ \A r \in Reqs : InConversionSpan(r) => loop = r
    /\ Cardinality({ r \in Reqs : InConversionSpan(r) }) <= 1
    /\ Cardinality({ r \in Reqs : child[r] = "running" }) <= 1

\* a child runs for one request while the workspace of another awaits its
\* deferred cleanup
C19_Witness ==
    \E r1, r2 \in Reqs :
        /\ r1 # r2
        /\ child[r1] = "running"
        /\ InConversionSpan(r1)
        /\ AwaitsDeferredCleanup(r2)

====
